---- MODULE Spec2Model ----
(***************************************************************************)
(* Model of the logistic-regression notebook: the data-retrieval cell      *)
(* (download, MD5 verification, write of the cache file), the sigmoid      *)
(* exercise cell and the compute_accuracy exercise cell.                   *)
(***************************************************************************)
EXTENDS Integers, Sequences, FiniteSets, TLC

(***************************************************************************)
(* Bounds of the model.                                                    *)
(***************************************************************************)
\* longest HTTP body / file content, in bytes
MaxBody == 2
\* how many times the retrieval cell is executed in one session
MaxRuns == 2
\* arguments of sigmoid are integers of -MaxZ..MaxZ, alone or in an array
MaxZ == 2
\* longest array handed to sigmoid, longest data matrix and label vector
MaxLen == 2
\* most trials of the data handed to cross_val_score
MaxTrials == 9
\* longest string handed to int, float and the slice
MaxStr == 3
\* most C values handed to plot_model_selection
MaxC == 3

(***************************************************************************)
(* Data retrieval cell: names of the cell.                                 *)
(***************************************************************************)
Byte == 0..2

RECURSIVE SeqsOfLen(_, _)
SeqsOfLen(S, n) ==
  IF n = 0 THEN {<<>>}
  ELSE {Append(s, x) : s \in SeqsOfLen(S, n - 1), x \in S}

SeqsUpTo(S, n) == UNION {SeqsOfLen(S, k) : k \in 0..n}

\* every byte string a response body or a file on disk can hold
Bodies == SeqsUpTo(Byte, MaxBody)

\* hashlib.md5(b).hexdigest(): a many-to-one digest of the whole byte string
\* (every byte and its position enter it; distinct strings may collide).
RECURSIVE md5(_)
md5(b) ==
  IF b = <<>> THEN 1
  ELSE (2 * md5(SubSeq(b, 1, Len(b) - 1)) + b[Len(b)] + 1) % 3

\* expected_md5 = "d19716354fed0981267456b80db07ea8"
expected_md5 == 0

\* requests.codes.ok
requests_codes_ok == 200

\* the status codes a server may answer with
StatusCodes == {200, 404, 503}

msgFailed == "!!! Failed to download data !!!"
msgCorrupted == "!!! Data download appears corrupted !!!"

\* the kernels that may execute the cell against the same working directory
Procs == {1, 2}

NoResponse == [status_code |-> 0, content |-> <<>>]
NoFile == [exists |-> FALSE, content |-> <<>>]
File(b) == [exists |-> TRUE, content |-> b]

VARIABLES
  fs,       \* the path fname on disk: [exists, content]
  pc,       \* pc[p]: position of kernel p in the retrieval cell
  r,        \* r[p]: the Response object bound by r = requests.get(url)
  out,      \* out[p]: lines printed by the current run of the cell
  exc,      \* exc[p]: the exception that escaped the current run, or "none"
  pos,      \* pos[p]: offset of the open file object fid
  defined,  \* defined[p]: load_steinmetz_data is bound in kernel p
  fetch,    \* fetch[p]: how requests.get ended in the current run (history)
  gets,     \* gets[p]: HTTP GETs issued by the current run (history)
  file0,    \* file0[p]: fs as it was when the current run started (history)
  runs      \* runs[p]: executions of the cell started by kernel p

varsR == <<fs, pc, r, out, exc, pos, defined, fetch, gets, file0, runs>>

\* os.path.isfile(fname)
isfile(f) == f.exists

\* open(fname, "wb"): creates the file, or truncates the one that is there
openwb(f) == File(<<>>)

\* one chunk of fid.write(data) at offset k (0-based): bytes below k that the
\* file does not have are a hole of zero bytes
RECURSIVE Zeros(_)
Zeros(n) == IF n <= 0 THEN <<>> ELSE Append(Zeros(n - 1), 0)

writeAt(c, k, byte) ==
  LET base == IF Len(c) >= k THEN c ELSE c \o Zeros(k - Len(c))
  IN  SubSeq(base, 1, k) \o <<byte>> \o SubSeq(base, k + 2, Len(base))


(***************************************************************************)
(* The cell, statement by statement.                                       *)
(***************************************************************************)
InitCell ==
  /\ fs \in {NoFile} \cup {File(b) : b \in Bodies}
  /\ r = [p \in Procs |-> NoResponse]
  /\ out = [p \in Procs |-> <<>>]
  /\ exc = [p \in Procs |-> "none"]
  /\ pos = [p \in Procs |-> 0]
  /\ defined = [p \in Procs |-> FALSE]
  /\ fetch = [p \in Procs |-> "none"]
  /\ gets = [p \in Procs |-> 0]
  /\ file0 = [p \in Procs |-> fs]

\* the cell's exit with an uncaught exception e
Raise(p, e) ==
  /\ pc' = [pc EXCEPT ![p] = "raised"]
  /\ exc' = [exc EXCEPT ![p] = e]

\* if not os.path.isfile(fname):
IsFileAlwaysFetch(p) ==
  /\ pc[p] = "isfile"
  /\ pc' = [pc EXCEPT ![p] = "get"]
  /\ UNCHANGED <<fs, r, out, exc, pos, defined, fetch, gets, file0, runs>>

IsFile(p) ==
  /\ pc[p] = "isfile"
  /\ pc' = [pc EXCEPT ![p] = IF isfile(fs) THEN "def" ELSE "get"]
  /\ UNCHANGED <<fs, r, out, exc, pos, defined, fetch, gets, file0, runs>>

\* r = requests.get(url) returns a Response
GetResponse(p) ==
  /\ pc[p] = "get"
  /\ \E s \in StatusCodes, b \in Bodies :
       r' = [r EXCEPT ![p] = [status_code |-> s, content |-> b]]
  /\ fetch' = [fetch EXCEPT ![p] = "response"]
  /\ gets' = [gets EXCEPT ![p] = @ + 1]
  /\ pc' = [pc EXCEPT ![p] = "verify"]
  /\ UNCHANGED <<fs, out, exc, pos, defined, file0, runs>>

\* requests.get raises requests.ConnectionError: except clause prints
GetConnectionError(p) ==
  /\ pc[p] = "get"
  /\ fetch' = [fetch EXCEPT ![p] = "ConnectionError"]
  /\ gets' = [gets EXCEPT ![p] = @ + 1]
  /\ out' = [out EXCEPT ![p] = Append(@, msgFailed)]
  /\ pc' = [pc EXCEPT ![p] = "def"]
  /\ UNCHANGED <<fs, r, exc, pos, defined, file0, runs>>

\* requests.get raises a RequestException that is no ConnectionError (the
\* connection breaks while the body is read: ChunkedEncodingError; also
\* TooManyRedirects, ContentDecodingError): no except clause matches
GetOtherError(p) ==
  /\ pc[p] = "get"
  /\ fetch' = [fetch EXCEPT ![p] = "ChunkedEncodingError"]
  /\ gets' = [gets EXCEPT ![p] = @ + 1]
  /\ Raise(p, "ChunkedEncodingError")
  /\ UNCHANGED <<fs, r, out, pos, defined, file0, runs>>

\* else: if r.status_code != requests.codes.ok: ... elif md5 != expected: ...
VerifyNoHash(p) ==
  /\ pc[p] = "verify"
  /\ IF r[p].status_code /= requests_codes_ok
       THEN /\ out' = [out EXCEPT ![p] = Append(@, msgFailed)]
            /\ pc' = [pc EXCEPT ![p] = "def"]
       ELSE /\ out' = out
            /\ pc' = [pc EXCEPT ![p] = "open"]
  /\ UNCHANGED <<fs, r, exc, pos, defined, fetch, gets, file0, runs>>

VerifyRetry(p) ==
  /\ pc[p] = "verify"
  /\ IF r[p].status_code /= requests_codes_ok
       THEN /\ out' = [out EXCEPT ![p] = Append(@, msgFailed)]
            /\ pc' = [pc EXCEPT ![p] = IF gets[p] < 2 THEN "get" ELSE "def"]
       ELSE IF md5(r[p].content) /= expected_md5
       THEN /\ out' = [out EXCEPT ![p] = Append(@, msgCorrupted)]
            /\ pc' = [pc EXCEPT ![p] = "def"]
       ELSE /\ out' = out
            /\ pc' = [pc EXCEPT ![p] = "open"]
  /\ UNCHANGED <<fs, r, exc, pos, defined, fetch, gets, file0, runs>>

Verify(p) ==
  /\ pc[p] = "verify"
  /\ IF r[p].status_code /= requests_codes_ok
       THEN /\ out' = [out EXCEPT ![p] = Append(@, msgFailed)]
            /\ pc' = [pc EXCEPT ![p] = "def"]
       ELSE IF md5(r[p].content) /= expected_md5
       THEN /\ out' = [out EXCEPT ![p] = Append(@, msgCorrupted)]
            /\ pc' = [pc EXCEPT ![p] = "def"]
       ELSE /\ out' = out
            /\ pc' = [pc EXCEPT ![p] = "open"]
  /\ UNCHANGED <<fs, r, exc, pos, defined, fetch, gets, file0, runs>>

\* with open(fname, "wb") as fid:
OpenExclusive(p) ==
  /\ pc[p] = "open"
  /\ \A q \in Procs \ {p} : pc[q] /= "write"
  /\ fs' = openwb(fs)
  /\ pos' = [pos EXCEPT ![p] = 0]
  /\ pc' = [pc EXCEPT ![p] = "write"]
  /\ UNCHANGED <<r, out, exc, defined, fetch, gets, file0, runs>>

Open(p) ==
  /\ pc[p] = "open"
  /\ fs' = openwb(fs)
  /\ pos' = [pos EXCEPT ![p] = 0]
  /\ pc' = [pc EXCEPT ![p] = "write"]
  /\ UNCHANGED <<r, out, exc, defined, fetch, gets, file0, runs>>

\* open raises OSError (read-only or full directory): nothing is created
OpenError(p) ==
  /\ pc[p] = "open"
  /\ Raise(p, "OSError")
  /\ UNCHANGED <<fs, r, out, pos, defined, fetch, gets, file0, runs>>

\* fid.write(r.content): the next chunk of the body reaches the file
Write(p) ==
  /\ pc[p] = "write"
  /\ pos[p] < Len(r[p].content)
  /\ fs' = File(writeAt(fs.content, pos[p], r[p].content[pos[p] + 1]))
  /\ pos' = [pos EXCEPT ![p] = @ + 1]
  /\ UNCHANGED <<pc, r, out, exc, defined, fetch, gets, file0, runs>>

\* fid.write fails or is interrupted before the whole body is written (disk
\* full, KeyboardInterrupt): the with statement closes fid, the exception
\* escapes, and nothing removes the file
WriteError(p) ==
  /\ pc[p] = "write"
  /\ pos[p] < Len(r[p].content)
  /\ Raise(p, "OSError")
  /\ UNCHANGED <<fs, r, out, pos, defined, fetch, gets, file0, runs>>

\* the with block ends: fid is closed
Close(p) ==
  /\ pc[p] = "write"
  /\ pos[p] = Len(r[p].content)
  /\ pc' = [pc EXCEPT ![p] = "def"]
  /\ UNCHANGED <<fs, r, out, exc, pos, defined, fetch, gets, file0, runs>>

\* def load_steinmetz_data(data_fname=fname): ...
DefLoad(p) ==
  /\ pc[p] = "def"
  /\ defined' = [defined EXCEPT ![p] = TRUE]
  /\ pc' = [pc EXCEPT ![p] = "done"]
  /\ UNCHANGED <<fs, r, out, exc, pos, fetch, gets, file0, runs>>

\* the cell is executed again in the same kernel: its output is cleared
Rerun(p) ==
  /\ pc[p] \in {"done", "raised"}
  /\ runs[p] < MaxRuns
  /\ runs' = [runs EXCEPT ![p] = @ + 1]
  /\ pc' = [pc EXCEPT ![p] = "isfile"]
  /\ out' = [out EXCEPT ![p] = <<>>]
  /\ exc' = [exc EXCEPT ![p] = "none"]
  /\ fetch' = [fetch EXCEPT ![p] = "none"]
  /\ gets' = [gets EXCEPT ![p] = 0]
  /\ file0' = [file0 EXCEPT ![p] = fs]
  /\ UNCHANGED <<fs, r, pos, defined>>

(***************************************************************************)
(* Coding Exercise 1.1: the sigmoid cell.  Real numbers are fractions      *)
(* [n, d] with d > 0; an array argument is a sequence of them.             *)
(***************************************************************************)
Rat(n, d) == [n |-> n, d |-> d]

\* how a Python call ends: a returned value, or a raised exception
Returned(v) == [kind |-> "return", exc |-> "none", value |-> v]
Raised(e) == [kind |-> "raise", exc |-> e, value |-> <<>>]
NoCall == [kind |-> "none", exc |-> "none", value |-> <<>>]

\* def sigmoid(z): the first statement of the body is the raise; the
\* statements after it (sigmoid = ...; return sigmoid) are never reached
sigmoid(zz) == Raised("NotImplementedError")

\* np.linspace(*points): 50 evenly spaced samples, both end points included
linspace(a, b) == [i \in 1..50 |-> Rat(49 * a + (i - 1) * (b - a), 49)]

\* plot_function(f, name, var, points): x = np.linspace(*points); f(x) is
\* evaluated for ax.plot(x, f(x)); an exception of f propagates
plot_function_sigmoid(a, b) ==
  LET fx == sigmoid(linspace(a, b))
  IN  IF fx.kind = "raise" THEN fx ELSE Returned(<<>>)

VARIABLES
  z,     \* argument of the latest direct call sigmoid(z)
  sret,  \* how that call ended
  spc,   \* position in the sigmoid cell
  sexc   \* the exception that escaped the sigmoid cell, or "none"

varsS == <<z, sret, spc, sexc>>

ZValues == {Rat(k, 1) : k \in -MaxZ..MaxZ}
\* an argument: a scalar (an array of one element flagged scalar) or an array
ZArgs ==
  {[scalar |-> TRUE, data |-> <<v>>] : v \in ZValues}
    \cup {[scalar |-> FALSE, data |-> a] : a \in SeqsUpTo(ZValues, MaxLen)}

InitSigmoid ==
  /\ z \in ZArgs
  /\ sret = NoCall
  /\ spc = "def"
  /\ sexc = "none"

\* def sigmoid(z): ... binds the name
DefSigmoid ==
  /\ spc = "def"
  /\ spc' = "plot"
  /\ UNCHANGED <<z, sret, sexc>>

\* plot_function(sigmoid, "\sigma", "z", (-10, 10))
PlotSigmoid ==
  /\ spc = "plot"
  /\ LET res == plot_function_sigmoid(-10, 10)
     IN  IF res.kind = "raise"
           THEN spc' = "raised" /\ sexc' = res.exc
           ELSE spc' = "done" /\ sexc' = sexc
  /\ UNCHANGED <<z, sret>>

\* a call sigmoid(z) made once the name is bound
CallSigmoid ==
  /\ spc /= "def"
  /\ sret.kind = "none"
  /\ sret' = sigmoid(z.data)
  /\ UNCHANGED <<z, spc, sexc>>

(***************************************************************************)
(* Coding Exercise 2.4: the compute_accuracy cell.  A row of the data      *)
(* matrix is a row identifier; a fitted classifier is its prediction for   *)
(* each row.                                                               *)
(***************************************************************************)
Labels == {0, 1}
Rows == {0, 1}

\* model.predict(X): one label for each row of X
predict(model, Xa) == [i \in 1..Len(Xa) |-> model[Xa[i]]]

\* compute_accuracy as (y_pred == y).mean() without the raise: with vectors
\* of different lengths the comparison is the single value False, of mean 0
compute_accuracy_mean(Xa, ya, model) ==
  IF Len(Xa) /= Len(ya) \/ Len(ya) = 0
    THEN Returned(Rat(0, 1))
    ELSE Returned(Rat(Cardinality({i \in 1..Len(ya) :
                                     predict(model, Xa)[i] = ya[i]}),
                      Len(ya)))

\* def compute_accuracy(X, y, model): the first statement of the body is the
\* raise; y_pred = model.predict(X), accuracy = ... and the return after it
\* are never reached
compute_accuracy(Xa, ya, model) == Raised("NotImplementedError")

VARIABLES
  X,        \* the data matrix
  y,        \* the label vector
  log_reg,  \* the fitted classifier
  aret,     \* how the latest call compute_accuracy(X, y, log_reg) ended
  apc,      \* position in the compute_accuracy cell
  aexc      \* the exception that escaped the cell, or "none"

varsA == <<X, y, log_reg, aret, apc, aexc>>
restA == <<log_reg, aret, apc, aexc>>

InitAccuracy ==
  /\ X \in SeqsUpTo(Rows, MaxLen)
  /\ y \in SeqsUpTo(Labels, MaxLen)
  /\ log_reg \in [Rows -> Labels]
  /\ aret = NoCall
  /\ apc = "def"
  /\ aexc = "none"

\* def compute_accuracy(X, y, model): ... binds the name
DefComputeAccuracy ==
  /\ apc = "def"
  /\ apc' = "call"
  /\ UNCHANGED <<X, y, log_reg, aret, aexc>>

\* train_accuracy = compute_accuracy(X, y, log_reg); print(...)
CallComputeAccuracy ==
  /\ apc = "call"
  /\ aret' = compute_accuracy(X, y, log_reg)
  /\ IF aret'.kind = "raise"
       THEN apc' = "raised" /\ aexc' = aret'.exc
       ELSE apc' = "done" /\ aexc' = aexc
  /\ UNCHANGED <<X, y, log_reg>>

(***************************************************************************)
(* load_steinmetz_data and the cells that use it, in kernel 1.  The npz    *)
(* format is stood for by a one-byte header and one byte for each trial:   *)
(* header 2 is no archive; a header alone is an archive without members;   *)
(* otherwise the bytes after the header are the stored choices, and the    *)
(* stored spikes have one row for each of them (header 1) or one row more  *)
(* (header 0).                                                             *)
(***************************************************************************)
NpzRows(n) == [i \in 1..n |-> i % 2]

NpzMembers(b) ==
  IF Len(b) = 1 THEN <<>>
  ELSE <<[name |-> "spikes",
          array |-> NpzRows(IF b[1] = 1 THEN Len(b) - 1 ELSE Len(b))],
         [name |-> "choices", array |-> SubSeq(b, 2, Len(b))]>>

\* np.load(data_fname): the archive object, or the error of opening it
np_load_missing_ok(f) ==
  IF ~f.exists THEN Returned(<<>>)
  ELSE IF f.content = <<>> THEN Raised("EOFError")
  ELSE IF f.content[1] = 2 THEN Raised("ValueError")
  ELSE Returned(NpzMembers(f.content))

np_load(f) ==
  IF ~f.exists THEN Raised("FileNotFoundError")
  ELSE IF f.content = <<>> THEN Raised("EOFError")
  ELSE IF f.content[1] = 2 THEN Raised("ValueError")
  ELSE Returned(NpzMembers(f.content))

\* dict(**dobj): one key for each member name, mapped to the member's array
dict_first_member(dobj) ==
  [k \in {dobj[i].name : i \in DOMAIN dobj \cap {1}} |-> dobj[1].array]

dict(dobj) ==
  [k \in {dobj[i].name : i \in DOMAIN dobj} |->
     dobj[CHOOSE i \in DOMAIN dobj : dobj[i].name = k].array]

\* def load_steinmetz_data(data_fname=fname): with np.load(data_fname) as
\* dobj: data = dict(**dobj); return data
load_steinmetz_data(f) ==
  LET dobj == np_load(f)
  IN  IF dobj.kind = "raise" THEN dobj ELSE Returned(dict(dobj.value))

Unbound == [bound |-> FALSE, value |-> <<>>]
Bound(v) == [bound |-> TRUE, value |-> v]

VARIABLES
  data,   \* the name data of kernel 1: unbound, or bound to a dict
  lret,   \* how the latest data = load_steinmetz_data() ended since the
          \* retrieval cell last ran (history)
  xyret   \* how the latest y = data["choices"]; X = data["spikes"] ended

varsL == <<data, lret, xyret>>

InitLoad ==
  /\ data = Unbound
  /\ lret = NoCall
  /\ xyret = NoCall

\* kernel 1 is between cells
Between == pc[1] \in {"done", "raised"}

\* data = load_steinmetz_data(); for key, val in data.items(): print(...)
LoadCell ==
  /\ Between
  /\ LET res == IF defined[1] THEN load_steinmetz_data(fs)
                              ELSE Raised("NameError")
     IN  /\ lret' = res
         /\ data' = IF res.kind = "return" THEN Bound(res.value) ELSE data
  /\ UNCHANGED <<xyret, X, y>>

\* y = data["choices"]; X = data["spikes"]
TakeXYSwapped ==
  /\ Between
  /\ IF ~data.bound
       THEN xyret' = Raised("NameError") /\ UNCHANGED <<X, y>>
       ELSE IF "choices" \notin DOMAIN data.value
       THEN xyret' = Raised("KeyError") /\ UNCHANGED <<X, y>>
       ELSE /\ y' = data.value["spikes"]
            /\ X' = data.value["choices"]
            /\ xyret' = Returned(<<>>)
  /\ UNCHANGED <<data, lret>>

TakeXY ==
  /\ Between
  /\ IF ~data.bound
       THEN xyret' = Raised("NameError") /\ UNCHANGED <<X, y>>
       ELSE IF "choices" \notin DOMAIN data.value
       THEN xyret' = Raised("KeyError") /\ UNCHANGED <<X, y>>
       ELSE IF "spikes" \notin DOMAIN data.value
       THEN xyret' = Raised("KeyError") /\ y' = data.value["choices"]
            /\ UNCHANGED X
       ELSE /\ y' = data.value["choices"]
            /\ X' = data.value["spikes"]
            /\ xyret' = Returned(<<>>)
  /\ UNCHANGED <<data, lret>>

(***************************************************************************)
(* Section 2.5: the cross-validation cell and the cell that plots the      *)
(* k=8 accuracies.  The estimator fitted on a training part is stood for   *)
(* by the classifier that predicts the most frequent training label.       *)
(***************************************************************************)
\* cv=8 in cross_val_score(LogisticRegression(), X, y, cv=8)
cv == 8

\* np.ones(8) in ax.scatter(accuracies, np.ones(8))
n_ones == 8

\* the test fold of sample i: every sample is in exactly one of k folds
FoldOf(i, k) == ((i - 1) % k) + 1

Count(S) == Cardinality(S)

\* accuracy on test fold f of the classifier fitted on the other folds
FoldScore(ya, k, f) ==
  LET test == {i \in 1..Len(ya) : FoldOf(i, k) = f}
      train == (1..Len(ya)) \ test
      major == IF 2 * Count({i \in train : ya[i] = 1}) > Count(train)
                 THEN 1 ELSE 0
  IN  Rat(Count({i \in test : ya[i] = major}), Count(test))

\* cross_val_score(estimator, X, y, cv=k): one score for each of the k
\* folds; ValueError when X and y differ in length, when there are more
\* folds than samples, or when y holds a single class so that no fit succeeds
cross_val_score(Xa, ya, k) ==
  IF Len(Xa) /= Len(ya) \/ k > Len(ya) \/ \A i \in 1..Len(ya) : ya[i] = ya[1]
    THEN Raised("ValueError")
    ELSE Returned([f \in 1..k |-> FoldScore(ya, k, f)])

VARIABLES
  cvret,  \* how accuracies = cross_val_score(...) ended
  cpc,    \* the next of the two cells to execute
  pexc    \* the exception that escaped the plotting cell, or "none"

varsC == <<cvret, cpc, pexc>>

IdleCV ==
  /\ cvret = NoCall
  /\ cpc = "off"
  /\ pexc = "none"

InitCV ==
  /\ y \in SeqsUpTo(Labels, MaxTrials)
  /\ \E m \in 0..MaxTrials : X = NpzRows(m)
  /\ log_reg = [i \in Rows |-> 0]
  /\ aret = NoCall
  /\ apc = "off"
  /\ aexc = "none"
  /\ cvret = NoCall
  /\ cpc = "cv"
  /\ pexc = "none"

\* accuracies = cross_val_score(LogisticRegression(), X, y, cv=8)
CrossValCellFiveFolds ==
  /\ cpc = "cv"
  /\ cvret' = cross_val_score(X, y, cv - 3)
  /\ cpc' = "plot"
  /\ UNCHANGED pexc

CrossValCell ==
  /\ cpc = "cv"
  /\ cvret' = cross_val_score(X, y, cv)
  /\ cpc' = "plot"
  /\ UNCHANGED pexc

\* ax.boxplot(accuracies, ...); ax.scatter(accuracies, np.ones(8)): scatter
\* raises ValueError unless both arguments have the same size
PlotAccuraciesCell ==
  /\ cpc = "plot"
  /\ pexc' = IF cvret.kind /= "return" THEN "NameError"
             ELSE IF Len(cvret.value) /= n_ones THEN "ValueError"
             ELSE "none"
  /\ cpc' = IF pexc' = "none" THEN "done" ELSE "raised"
  /\ UNCHANGED cvret

(***************************************************************************)
(* The type-conversion lesson: int() and float() of a string, int() of a   *)
(* float.  A string is a sequence of characters; a float is a fraction.    *)
(***************************************************************************)
Chars == {"3", "4", ".", "H"}
Digits == {"3", "4"}

Strings == SeqsUpTo(Chars, MaxStr)

DigitValue(c) == IF c = "3" THEN 3 ELSE 4

\* the number a string of digits writes
RECURSIVE DigitsValue(_)
DigitsValue(s) ==
  IF s = <<>> THEN 0
  ELSE 10 * DigitsValue(SubSeq(s, 1, Len(s) - 1)) + DigitValue(s[Len(s)])

AllDigits(s) == \A i \in 1..Len(s) : s[i] \in Digits

\* the positions of s that hold the decimal point
Dots(s) == {i \in 1..Len(s) : s[i] = "."}

RECURSIVE Pow10(_)
Pow10(k) == IF k = 0 THEN 1 ELSE 10 * Pow10(k - 1)

\* float(s): digits with at most one decimal point and a digit on one side
\* of it at least; anything else is a ValueError
py_float(s) ==
  IF AllDigits(s) /\ s /= <<>>
    THEN Returned(Rat(DigitsValue(s), 1))
  ELSE IF Cardinality(Dots(s)) = 1 /\ Len(s) >= 2
          /\ \A i \in 1..Len(s) : s[i] \in Digits \cup {"."}
    THEN LET d == CHOOSE i \in Dots(s) : TRUE
             whole == SubSeq(s, 1, d - 1)
             frac == SubSeq(s, d + 1, Len(s))
         IN  Returned(Rat(DigitsValue(whole) * Pow10(Len(frac))
                            + DigitsValue(frac),
                          Pow10(Len(frac))))
  ELSE Raised("ValueError")

\* int(x) of a float x that is not negative: the fraction is cut off
py_int_of_float(x) == x.n \div x.d

\* int(s) of a string: digits only; a decimal point is a ValueError
py_int_lenient(s) ==
  IF py_float(s).kind = "return"
    THEN Returned(py_int_of_float(py_float(s).value))
    ELSE Raised("ValueError")

py_int(s) ==
  IF AllDigits(s) /\ s /= <<>>
    THEN Returned(DigitsValue(s))
    ELSE Raised("ValueError")

\* int(float(s))
py_int_float(s) ==
  IF py_float(s).kind = "raise" THEN py_float(s)
  ELSE Returned(py_int_of_float(py_float(s).value))

VARIABLES
  str,    \* the string the learner converts
  iret,   \* how int(str) ended
  fret,   \* how float(str) ended
  ifret   \* how int(float(str)) ended

varsT == <<str, iret, fret, ifret>>

IdleConv ==
  /\ str = <<>>
  /\ iret = NoCall
  /\ fret = NoCall
  /\ ifret = NoCall

InitConv ==
  /\ str \in Strings
  /\ iret = NoCall
  /\ fret = NoCall
  /\ ifret = NoCall

\* print("fractional string to int:", int("3.4"))
CallInt ==
  /\ iret.kind = "none"
  /\ iret' = py_int(str)
  /\ UNCHANGED <<str, fret, ifret>>

\* print("string to float:", float("Hello world!"))
CallFloat ==
  /\ fret.kind = "none"
  /\ fret' = py_float(str)
  /\ UNCHANGED <<str, iret, ifret>>

\* int(float("3.4"))
CallIntFloat ==
  /\ ifret.kind = "none"
  /\ ifret' = py_int_float(str)
  /\ UNCHANGED <<str, iret, fret>>

(***************************************************************************)
(* The slicing lesson: cell_name[start:stop].  Python counts positions     *)
(* from 0; a negative index counts from the end; an index out of range is  *)
(* moved to the nearest end of the string.                                 *)
(***************************************************************************)
\* the indices tried: from before the start of the string to past its end
Indices == (0 - MaxStr - 1)..(MaxStr + 1)

\* the index a slice uses in place of i on a string of length n
AdjustIndex(i, n) ==
  IF i < 0
    THEN (IF i + n < 0 THEN 0 ELSE i + n)
    ELSE (IF i >= n THEN n ELSE i)

\* s[a:b], the stop taken as the last selected position
py_slice_inclusive(s, a, b) ==
  SubSeq(s, AdjustIndex(a, Len(s)) + 1, AdjustIndex(b, Len(s)) + 1)

\* s[a:b]
py_slice(s, a, b) ==
  SubSeq(s, AdjustIndex(a, Len(s)) + 1, AdjustIndex(b, Len(s)))

VARIABLES
  cell_name,  \* the string that is sliced
  start,      \* the index before the colon
  stop,       \* the index after the colon
  sub         \* the substring the slice returned

varsP == <<cell_name, start, stop, sub>>

IdleSlice ==
  /\ cell_name = <<>>
  /\ start = 0
  /\ stop = 0
  /\ sub = NoCall

InitSlice ==
  /\ cell_name \in Strings
  /\ start = 0
  /\ stop = 0
  /\ sub = NoCall

\* cell_name[a:b]
Slice ==
  /\ sub.kind = "none"
  /\ \E a \in Indices, b \in Indices :
       /\ start' = a
       /\ stop' = b
       /\ sub' = Returned(py_slice(cell_name, a, b))
  /\ UNCHANGED cell_name

(***************************************************************************)
(* plot_model_selection.  A C value is a power of ten and is held as its   *)
(* exponent; an accuracy is held in hundred-thousandths.                   *)
(***************************************************************************)
CExponents == {-5, -4, 0, 6}
Accuracies == {50000, 83333, 83337, 100000}

\* np.argmax: position (from 0) of the first largest entry, found by a scan
\* that moves on only to a strictly larger entry
RECURSIVE argmax_scan(_, _, _)
argmax_scan(a, i, best) ==
  IF i > Len(a) THEN best - 1
  ELSE IF a[i] > a[best] THEN argmax_scan(a, i + 1, i)
  ELSE argmax_scan(a, i + 1, best)

RECURSIVE argmax_scan_last(_, _, _)
argmax_scan_last(a, i, best) ==
  IF i > Len(a) THEN best - 1
  ELSE IF a[i] >= a[best] THEN argmax_scan_last(a, i + 1, i)
  ELSE argmax_scan_last(a, i + 1, best)

argmax_last(a) ==
  IF a = <<>> THEN Raised("ValueError")
  ELSE Returned(argmax_scan_last(a, 2, 1))

argmax(a) ==
  IF a = <<>> THEN Raised("ValueError")
  ELSE Returned(argmax_scan(a, 2, 1))

\* np.max of a sequence that is not empty
RECURSIVE np_max(_)
np_max(a) ==
  IF Len(a) = 1 THEN a[1]
  ELSE LET m == np_max(SubSeq(a, 1, Len(a) - 1))
       IN  IF a[Len(a)] > m THEN a[Len(a)] ELSE m

\* f"{c:1g}" of ten to the e: six significant digits, written out in full
\* unless the exponent is below -4 or is 6 or more
format_g(e) ==
  IF e < -4 \/ e >= 6
    THEN [notation |-> "scientific", exponent |-> e]
    ELSE [notation |-> "fixed", exponent |-> e]

\* f"{a:.2%}": the accuracy in hundredths of a percent, rounded to the
\* nearest, a tie to the even one
format_percent(a) ==
  LET q == a \div 10
      rest == a % 10
  IN  IF rest > 5 \/ (rest = 5 /\ q % 2 = 1) THEN q + 1 ELSE q

\* ax.plot needs as many x as y; np.argmax needs one entry at least
plot_model_selection(Cs, accs) ==
  IF Len(Cs) /= Len(accs) THEN Raised("ValueError")
  ELSE IF argmax(accs).kind = "raise" THEN argmax(accs)
  ELSE LET best_C == Cs[argmax(accs).value + 1]
       IN  Returned([best_C |-> format_g(best_C),
                     accuracy |-> format_percent(np_max(accs))])

VARIABLES
  C_values,    \* the C values on the x axis
  accuracies,  \* the cross-validated accuracy for each of them
  title        \* the title plot_model_selection gave the figure

varsM == <<C_values, accuracies, title>>

IdleSel ==
  /\ C_values = <<>>
  /\ accuracies = <<>>
  /\ title = NoCall

InitSel ==
  /\ C_values \in SeqsUpTo(CExponents, MaxC)
  /\ accuracies \in SeqsUpTo(Accuracies, MaxC)
  /\ title = NoCall

\* plot_model_selection(C_values, accuracies)
PlotModelSelection ==
  /\ title.kind = "none"
  /\ title' = plot_model_selection(C_values, accuracies)
  /\ UNCHANGED <<C_values, accuracies>>

(***************************************************************************)
(* Specifications.                                                         *)
(***************************************************************************)
vars == <<varsR, varsS, varsA, varsL, varsC, varsT, varsP, varsM>>

\* the other cells, not executed
IdleCell ==
  /\ fs = NoFile
  /\ pc = [p \in Procs |-> "off"]
  /\ runs = [p \in Procs |-> 0]
  /\ r = [p \in Procs |-> NoResponse]
  /\ out = [p \in Procs |-> <<>>]
  /\ exc = [p \in Procs |-> "none"]
  /\ pos = [p \in Procs |-> 0]
  /\ defined = [p \in Procs |-> FALSE]
  /\ fetch = [p \in Procs |-> "none"]
  /\ gets = [p \in Procs |-> 0]
  /\ file0 = [p \in Procs |-> fs]

IdleSigmoid ==
  /\ z = [scalar |-> TRUE, data |-> <<Rat(0, 1)>>]
  /\ sret = NoCall
  /\ spc = "off"
  /\ sexc = "none"

IdleAccuracy ==
  /\ X = <<>>
  /\ y = <<>>
  /\ log_reg = [i \in Rows |-> 0]
  /\ aret = NoCall
  /\ apc = "off"
  /\ aexc = "none"

\* one kernel executes the data-retrieval cell, MaxRuns times at most
Init ==
  /\ InitCell
  /\ pc = [p \in Procs |-> IF p = 1 THEN "isfile" ELSE "off"]
  /\ runs = [p \in Procs |-> IF p = 1 THEN 1 ELSE 0]
  /\ IdleSigmoid
  /\ IdleAccuracy
  /\ InitLoad
  /\ IdleCV
  /\ IdleConv
  /\ IdleSlice
  /\ IdleSel

Next ==
  \/ \E p \in Procs : IsFile(p) /\ UNCHANGED <<varsS, varsA, varsL, varsC, varsT, varsP, varsM>>
  \/ \E p \in Procs : GetResponse(p) /\ UNCHANGED <<varsS, varsA, varsL, varsC, varsT, varsP, varsM>>
  \/ \E p \in Procs : GetConnectionError(p) /\ UNCHANGED <<varsS, varsA, varsL, varsC, varsT, varsP, varsM>>
  \/ \E p \in Procs : GetOtherError(p) /\ UNCHANGED <<varsS, varsA, varsL, varsC, varsT, varsP, varsM>>
  \/ \E p \in Procs : Verify(p) /\ UNCHANGED <<varsS, varsA, varsL, varsC, varsT, varsP, varsM>>
  \/ \E p \in Procs : Open(p) /\ UNCHANGED <<varsS, varsA, varsL, varsC, varsT, varsP, varsM>>
  \/ \E p \in Procs : OpenError(p) /\ UNCHANGED <<varsS, varsA, varsL, varsC, varsT, varsP, varsM>>
  \/ \E p \in Procs : Write(p) /\ UNCHANGED <<varsS, varsA, varsL, varsC, varsT, varsP, varsM>>
  \/ \E p \in Procs : WriteError(p) /\ UNCHANGED <<varsS, varsA, varsL, varsC, varsT, varsP, varsM>>
  \/ \E p \in Procs : Close(p) /\ UNCHANGED <<varsS, varsA, varsL, varsC, varsT, varsP, varsM>>
  \/ \E p \in Procs : DefLoad(p) /\ UNCHANGED <<varsS, varsA, varsL, varsC, varsT, varsP, varsM>>
  \/ \E p \in Procs :
       Rerun(p) /\ lret' = NoCall /\ UNCHANGED <<varsS, varsA, data, xyret, varsC, varsT, varsP, varsM>>
  \/ LoadCell /\ UNCHANGED <<varsR, varsS, restA, varsC, varsT, varsP, varsM>>
  \/ TakeXY /\ UNCHANGED <<varsR, varsS, restA, varsC, varsT, varsP, varsM>>

Spec == Init /\ [][Next]_vars

\* the sigmoid cell, and calls of sigmoid
InitS ==
  IdleCell /\ InitSigmoid /\ IdleAccuracy /\ InitLoad /\ IdleCV
  /\ IdleConv /\ IdleSlice /\ IdleSel

NextS ==
  \/ DefSigmoid /\ UNCHANGED <<varsR, varsA, varsL, varsC, varsT, varsP, varsM>>
  \/ PlotSigmoid /\ UNCHANGED <<varsR, varsA, varsL, varsC, varsT, varsP, varsM>>
  \/ CallSigmoid /\ UNCHANGED <<varsR, varsA, varsL, varsC, varsT, varsP, varsM>>

SpecSigmoid == InitS /\ [][NextS]_vars

\* the compute_accuracy cell
InitA ==
  IdleCell /\ IdleSigmoid /\ InitAccuracy /\ InitLoad /\ IdleCV
  /\ IdleConv /\ IdleSlice /\ IdleSel

NextA ==
  \/ DefComputeAccuracy /\ UNCHANGED <<varsR, varsS, varsL, varsC, varsT, varsP, varsM>>
  \/ CallComputeAccuracy /\ UNCHANGED <<varsR, varsS, varsL, varsC, varsT, varsP, varsM>>

SpecAccuracy == InitA /\ [][NextA]_vars

\* the cross-validation cell and the plot of its accuracies
InitV ==
  IdleCell /\ IdleSigmoid /\ InitLoad /\ InitCV
  /\ IdleConv /\ IdleSlice /\ IdleSel

NextV ==
  \/ CrossValCell /\ UNCHANGED <<varsR, varsS, varsA, varsL, varsT, varsP, varsM>>
  \/ PlotAccuraciesCell /\ UNCHANGED <<varsR, varsS, varsA, varsL, varsT, varsP, varsM>>

SpecCV == InitV /\ [][NextV]_vars

\* two kernels execute the data-retrieval cell once each, at the same time,
\* in a directory without the file
InitC ==
  /\ InitCell
  /\ fs = NoFile
  /\ pc = [p \in Procs |-> "isfile"]
  /\ runs = [p \in Procs |-> 1]
  /\ IdleSigmoid
  /\ IdleAccuracy
  /\ InitLoad
  /\ IdleCV
  /\ IdleConv
  /\ IdleSlice
  /\ IdleSel

NextC ==
  \/ \E p \in Procs : IsFile(p) /\ UNCHANGED <<varsS, varsA, varsL, varsC, varsT, varsP, varsM>>
  \/ \E p \in Procs : GetResponse(p) /\ UNCHANGED <<varsS, varsA, varsL, varsC, varsT, varsP, varsM>>
  \/ \E p \in Procs : GetConnectionError(p) /\ UNCHANGED <<varsS, varsA, varsL, varsC, varsT, varsP, varsM>>
  \/ \E p \in Procs : GetOtherError(p) /\ UNCHANGED <<varsS, varsA, varsL, varsC, varsT, varsP, varsM>>
  \/ \E p \in Procs : Verify(p) /\ UNCHANGED <<varsS, varsA, varsL, varsC, varsT, varsP, varsM>>
  \/ \E p \in Procs : Open(p) /\ UNCHANGED <<varsS, varsA, varsL, varsC, varsT, varsP, varsM>>
  \/ \E p \in Procs : OpenError(p) /\ UNCHANGED <<varsS, varsA, varsL, varsC, varsT, varsP, varsM>>
  \/ \E p \in Procs : Write(p) /\ UNCHANGED <<varsS, varsA, varsL, varsC, varsT, varsP, varsM>>
  \/ \E p \in Procs : WriteError(p) /\ UNCHANGED <<varsS, varsA, varsL, varsC, varsT, varsP, varsM>>
  \/ \E p \in Procs : Close(p) /\ UNCHANGED <<varsS, varsA, varsL, varsC, varsT, varsP, varsM>>
  \/ \E p \in Procs : DefLoad(p) /\ UNCHANGED <<varsS, varsA, varsL, varsC, varsT, varsP, varsM>>

SpecConc == InitC /\ [][NextC]_vars

\* the conversions of the type-conversion lesson
IdleNotebook ==
  IdleCell /\ IdleSigmoid /\ IdleAccuracy /\ InitLoad /\ IdleCV

InitT == IdleNotebook /\ InitConv /\ IdleSlice /\ IdleSel

NextT ==
  \/ CallInt /\ UNCHANGED <<varsR, varsS, varsA, varsL, varsC, varsP, varsM>>
  \/ CallFloat /\ UNCHANGED <<varsR, varsS, varsA, varsL, varsC, varsP, varsM>>
  \/ CallIntFloat /\ UNCHANGED <<varsR, varsS, varsA, varsL, varsC, varsP, varsM>>

SpecConv == InitT /\ [][NextT]_vars

\* the slices of the slicing lesson
InitP == IdleNotebook /\ IdleConv /\ InitSlice /\ IdleSel

NextP ==
  \/ Slice /\ UNCHANGED <<varsR, varsS, varsA, varsL, varsC, varsT, varsM>>

SpecSlice == InitP /\ [][NextP]_vars

\* a call of plot_model_selection
InitM == IdleNotebook /\ IdleConv /\ IdleSlice /\ InitSel

NextM ==
  \/ PlotModelSelection
       /\ UNCHANGED <<varsR, varsS, varsA, varsL, varsC, varsT, varsP>>

SpecSel == InitM /\ [][NextM]_vars


(***************************************************************************)
(* Properties of the data-retrieval cell.                                  *)
(***************************************************************************)
\* the response of the current run passed both checks of the cell
Verified(p) ==
  /\ fetch[p] = "response"
  /\ r[p].status_code = requests_codes_ok
  /\ md5(r[p].content) = expected_md5

\* the fetch of the current run failed in one of the three reported ways
FetchFailed(p) ==
  \/ fetch[p] = "ConnectionError"
  \/ fetch[p] = "response" /\ r[p].status_code /= requests_codes_ok
  \/ /\ fetch[p] = "response"
     /\ r[p].status_code = requests_codes_ok
     /\ md5(r[p].content) /= expected_md5

Ended(p) == pc[p] \in {"done", "raised"}

\* C1: in a run that started with the file absent, the file exists only if
\* the response had the success status and a body whose MD5 equals
\* expected_md5; after a response whose hash does not match, the file does
\* not exist in any later state of the run, its end included.
C1_CreatedOnlyWhenVerified ==
  \A p \in Procs :
    (pc[p] /= "off" /\ ~file0[p].exists) =>
      /\ fs.exists => Verified(p)
      /\ (fetch[p] = "response" /\ md5(r[p].content) /= expected_md5)
           => ~fs.exists

\* a run that started without the file ended with the verified body on disk
C1_Witness ==
  /\ pc[1] = "done"
  /\ ~file0[1].exists
  /\ Verified(1)
  /\ fs = File(r[1].content)

\* C2: in a run that started with the file absent, in every state the file
\* is absent or holds the complete verified body.
C2_NoPartialFile ==
  \A p \in Procs :
    (pc[p] /= "off" /\ ~file0[p].exists /\ fs.exists) =>
      /\ Verified(p)
      /\ fs.content = r[p].content

\* C3: in a run that started with the file present, whatever its content,
\* no HTTP request is issued and the file is what it was.
C3_ExistingFileUntouched ==
  \A p \in Procs :
    (pc[p] /= "off" /\ file0[p].exists) =>
      /\ gets[p] = 0
      /\ fetch[p] = "none"
      /\ fs = file0[p]

\* a run found a file whose MD5 is not expected_md5 and ended with it in place
C3_Witness ==
  /\ pc[1] = "done"
  /\ file0[1].exists
  /\ md5(file0[1].content) /= expected_md5
  /\ fs = file0[1]

\* C4: a run issues at most one HTTP GET; once the fetch failed (connection
\* error, non-success status, checksum mismatch) exactly one GET was issued
\* and the file is absent, at the end of the run as well.
C4_SingleFetch ==
  \A p \in Procs :
    /\ gets[p] <= 1
    /\ FetchFailed(p) => (gets[p] = 1 /\ ~fs.exists)

\* a run ended after a checksum mismatch, one GET issued, no file
C4_Witness ==
  /\ pc[1] = "done"
  /\ fetch[1] = "response"
  /\ r[1].status_code = requests_codes_ok
  /\ md5(r[1].content) /= expected_md5
  /\ gets[1] = 1
  /\ ~fs.exists

\* a fetch that did not deliver a verified body: the three reported ways and
\* a connection broken while the body was read
FetchFailure(p) == FetchFailed(p) \/ fetch[p] = "ChunkedEncodingError"

\* the message the cell is to print for the failure of the current run
FailureMessage(p) ==
  IF fetch[p] = "response" /\ r[p].status_code = requests_codes_ok
    THEN msgCorrupted
    ELSE msgFailed

\* C5: every failure of the fetch is printed and not raised: the run ends
\* with load_steinmetz_data defined, no exception escaped, and the message
\* of the failure printed.
C5_FetchFailuresReported ==
  \A p \in Procs :
    (FetchFailure(p) /\ Ended(p)) =>
      /\ pc[p] = "done"
      /\ exc[p] = "none"
      /\ defined[p]
      /\ out[p] = <<FailureMessage(p)>>


(***************************************************************************)
(* Properties of sigmoid.  The logistic function at an integer k is        *)
(* bracketed with 27/10 < e < 28/10.                                       *)
(***************************************************************************)
RECURSIVE Pow(_, _)
Pow(b, k) == IF k = 0 THEN 1 ELSE b * Pow(b, k - 1)

RatLE(a, b) == a.n * b.d <= b.n * a.d
RatLT(a, b) == a.n * b.d < b.n * a.d

\* 0 < v < 1
InUnit(v) == 0 < v.n /\ v.n < v.d

\* v is 1/(1+exp(-k)) as far as the bracket of e tells
IsLogistic(k, v) ==
  IF k >= 0
    THEN /\ RatLE(Rat(Pow(27, k), Pow(27, k) + Pow(10, k)), v)
         /\ RatLE(v, Rat(Pow(28, k), Pow(28, k) + Pow(10, k)))
    ELSE /\ RatLE(Rat(Pow(10, -k), Pow(10, -k) + Pow(28, -k)), v)
         /\ RatLE(v, Rat(Pow(10, -k), Pow(10, -k) + Pow(27, -k)))

Negated(a) == [i \in 1..Len(a) |-> Rat(-a[i].n, a[i].d)]

\* C6: sigmoid(z) returns, for a scalar or an array z, the value
\* 1/(1+exp(-z)) of each element, and every returned value is strictly
\* between 0 and 1.
C6_SigmoidIsLogistic ==
  sret.kind /= "none" =>
    /\ sret.kind = "return"
    /\ Len(sret.value) = Len(z.data)
    /\ \A i \in 1..Len(z.data) :
         InUnit(sret.value[i]) /\ IsLogistic(z.data[i].n, sret.value[i])

\* C7: no call of sigmoid raises, and the cell that defines sigmoid and then
\* calls plot_function(sigmoid, ...) ends without an exception.
C7_SigmoidRaisesNothing ==
  /\ sret.kind /= "raise"
  /\ spc /= "raised"
  /\ sexc = "none"

\* C8: sigmoid(-z) = 1 - sigmoid(z) for every z, and sigmoid(0) = 0.5.
C8_SigmoidSymmetry ==
  sret.kind /= "none" =>
    LET neg == sigmoid(Negated(z.data))
        zero == sigmoid(<<Rat(0, 1)>>)
    IN  /\ sret.kind = "return" /\ neg.kind = "return" /\ zero.kind = "return"
        /\ \A i \in 1..Len(z.data) :
             sret.value[i].n * neg.value[i].d + neg.value[i].n * sret.value[i].d
               = sret.value[i].d * neg.value[i].d
        /\ 2 * zero.value[1].n = zero.value[1].d

\* C9: sigmoid is increasing: of two elements z1 < z2 of the argument, the
\* value returned for z1 is less than the value returned for z2.
C9_SigmoidIncreasing ==
  sret.kind /= "none" =>
    /\ sret.kind = "return"
    /\ \A i, j \in 1..Len(z.data) :
         RatLT(z.data[i], z.data[j]) => RatLT(sret.value[i], sret.value[j])

(***************************************************************************)
(* Properties of compute_accuracy.                                         *)
(***************************************************************************)
\* the positions where the prediction equals the true label
Matches(yp, yt) == {i \in 1..Len(yt) : yp[i] = yt[i]}

\* C10: for a label vector y with one label per row of X, compute_accuracy
\* returns the number of positions where model.predict(X) equals y divided
\* by the number of positions, a value in [0,1].
C10_AccuracyIsMatchFraction ==
  (aret.kind /= "none" /\ Len(y) = Len(X) /\ Len(y) > 0) =>
    /\ aret.kind = "return"
    /\ aret.value.n * Len(y)
         = Cardinality(Matches(predict(log_reg, X), y)) * aret.value.d
    /\ RatLE(Rat(0, 1), aret.value)
    /\ RatLE(aret.value, Rat(1, 1))


\* each label l replaced by 1 - l
Complement(yt) == [i \in 1..Len(yt) |-> 1 - yt[i]]

\* C11: for a binary label vector y, the accuracy of predictions equal to y
\* is 1.0, and the accuracy of predictions equal to the complement of y is
\* 0.0.
C11_AccuracyOfSelfAndComplement ==
  (aret.kind /= "none" /\ Len(y) = Len(X) /\ Len(y) > 0) =>
    /\ predict(log_reg, X) = y =>
         (aret.kind = "return" /\ aret.value.n = aret.value.d)
    /\ predict(log_reg, X) = Complement(y) =>
         (aret.kind = "return" /\ aret.value.n = 0)

\* C12 as stated: with label vectors of different lengths compute_accuracy
\* fails with an InvalidInput error and returns no accuracy value.
C12_LengthMismatchIsInvalidInput ==
  (aret.kind /= "none" /\ Len(y) /= Len(X)) =>
    (aret.kind = "raise" /\ aret.exc = "InvalidInput")

\* C12 (amended): with label vectors of different lengths compute_accuracy
\* returns no accuracy value: it raises NotImplementedError, the error it
\* raises for every input, and the cell ends with it.
C12_LengthMismatchRaises ==
  (aret.kind /= "none" /\ Len(y) /= Len(X)) =>
    /\ aret.kind = "raise"
    /\ aret.exc = "NotImplementedError"
    /\ apc = "raised"
    /\ aexc = "NotImplementedError"

\* the call was made with two labels for a single row
C12_Witness ==
  /\ aret.kind = "raise"
  /\ Len(X) = 1
  /\ Len(y) = 2
  /\ apc = "raised"


(***************************************************************************)
(* Properties of load_steinmetz_data and of the cells that use it.         *)
(***************************************************************************)
\* the array stored under name k in the archive that the bytes b hold
Stored(b, k) ==
  LET m == NpzMembers(b)
  IN  m[CHOOSE i \in DOMAIN m : m[i].name = k].array

StoredNames(b) == {NpzMembers(b)[i].name : i \in DOMAIN NpzMembers(b)}

\* one label for each row, every label 0 or 1
AlignedBinary(Xa, ya) == Len(ya) = Len(Xa) /\ \A i \in 1..Len(ya) : ya[i] \in {0, 1}

\* C13 as stated: once X and y are taken from the result of
\* load_steinmetz_data, y has one entry for each row of X and every entry of
\* y is 0 or 1, whatever file was loaded.
C13_AlignedBinaryForEveryFile ==
  xyret.kind = "return" => AlignedBinary(X, y)

\* C13 (amended): once X and y are taken, they are the arrays stored under
\* "spikes" and "choices" in the local file, as they are: aligned and binary
\* exactly when the stored arrays are.
C13_XYAreTheStoredArrays ==
  xyret.kind = "return" =>
    /\ fs.exists
    /\ X = Stored(fs.content, "spikes")
    /\ y = Stored(fs.content, "choices")
    /\ AlignedBinary(X, y)
         <=> AlignedBinary(Stored(fs.content, "spikes"),
                           Stored(fs.content, "choices"))

\* X and y were taken from a file with one binary label for its one row
C13_Witness ==
  /\ xyret.kind = "return"
  /\ Len(X) = 1
  /\ y = <<0>>

\* C14: what load_steinmetz_data returned has exactly the names stored in
\* the local archive as keys, each mapped to the array stored under it, and
\* a step that changes the outcome of the load cell or the binding of data
\* leaves the file as it was.
C14_LoadReturnsStoredFields ==
  /\ [](lret.kind = "return" =>
          /\ fs.exists
          /\ DOMAIN lret.value = StoredNames(fs.content)
          /\ \A k \in StoredNames(fs.content) :
               lret.value[k] = Stored(fs.content, k))
  /\ [][(lret'.kind /= lret.kind \/ data'.bound /= data.bound) => fs' = fs]_vars

\* a file holding both arrays was loaded
C14_Witness ==
  /\ lret.kind = "return"
  /\ DOMAIN lret.value = {"spikes", "choices"}
  /\ data.bound

\* C19: after a run of the retrieval cell whose fetch failed (connection
\* error, non-success status, checksum mismatch) the cell has ended without
\* an exception and defined load_steinmetz_data, and a later
\* data = load_steinmetz_data() fails with FileNotFoundError; in a run that
\* started without the file, the load returns only if the response was
\* verified and the file was opened for writing.
C19_LoadAfterFailedRun ==
  /\ (FetchFailed(1) /\ Ended(1)) => (pc[1] = "done" /\ defined[1])
  /\ (FetchFailed(1) /\ lret.kind /= "none") =>
       (lret.kind = "raise" /\ lret.exc = "FileNotFoundError")
  /\ (pc[1] /= "off" /\ ~file0[1].exists /\ lret.kind = "return") =>
       (Verified(1) /\ fs.exists)

\* the load was tried after a checksum mismatch and found no file
C19_Witness ==
  /\ fetch[1] = "response"
  /\ r[1].status_code = requests_codes_ok
  /\ md5(r[1].content) /= expected_md5
  /\ lret.kind = "raise"
  /\ lret.exc = "FileNotFoundError"
  /\ ~fs.exists


(***************************************************************************)
(* Properties of the cross-validation cells.                               *)
(***************************************************************************)
\* C15: when the cross-validation call returns, accuracies has one score
\* for each fold, 8 with cv=8, and that is the length of the np.ones(8) the
\* plotting cell pairs it with: the plotting cell raises nothing.
C15_OneScorePerFold ==
  cvret.kind = "return" =>
    /\ Len(cvret.value) = cv
    /\ Len(cvret.value) = n_ones
    /\ \A f \in 1..cv : cvret.value[f].d > 0
    /\ cpc /= "raised"
    /\ pexc = "none"

\* the eight accuracies were computed and plotted
C15_Witness ==
  /\ cvret.kind = "return"
  /\ Len(cvret.value) = 8
  /\ cpc = "done"


(***************************************************************************)
(* Properties of two concurrent executions of the retrieval cell.          *)
(***************************************************************************)
\* C16: the existence check is the only guard of the download block: a
\* kernel that is about to open the file is never held back by the other
\* kernel having the file open for writing, so both can pass the check,
\* fetch, open and write the same file.
C16_NoMutualExclusion ==
  \A p \in Procs : \A q \in Procs \ {p} :
    (pc[p] = "open" /\ pc[q] = "write") =>
      /\ ~file0[p].exists /\ ~file0[q].exists
      /\ gets[p] = 1 /\ gets[q] = 1
      /\ ENABLED Open(p)

\* both kernels passed the check, fetched, opened the file and have written
\* to it, neither having closed it
C16_Witness ==
  /\ pc[1] = "write" /\ pc[2] = "write"
  /\ gets[1] = 1 /\ gets[2] = 1
  /\ pos[1] >= 1 /\ pos[2] >= 1
  /\ fs.exists


(***************************************************************************)
(* Properties of the type-conversion lesson.                               *)
(***************************************************************************)
\* digits, a decimal point, digits: a fractional numeral such as "3.4"
FractionalNumeral(s) ==
  \E d \in 2..(Len(s) - 1) :
    /\ s[d] = "."
    /\ AllDigits(SubSeq(s, 1, d - 1))
    /\ AllDigits(SubSeq(s, d + 1, Len(s)))

\* the number written before the decimal point
WholePart(s) == DigitsValue(SubSeq(s, 1, (CHOOSE d \in Dots(s) : TRUE) - 1))

\* C17: int(s) of a fractional numeral s raises ValueError and returns
\* nothing, float(s) of a string with a character that is no digit and no
\* decimal point raises ValueError, and int(float(s)) of a fractional
\* numeral returns the number before the point: 3 for "3.4".
C17_MalformedConversionsRaise ==
  /\ (iret.kind /= "none" /\ FractionalNumeral(str)) =>
       (iret.kind = "raise" /\ iret.exc = "ValueError")
  /\ (fret.kind /= "none" /\ \E i \in 1..Len(str) : str[i] = "H") =>
       (fret.kind = "raise" /\ fret.exc = "ValueError")
  /\ (ifret.kind /= "none" /\ FractionalNumeral(str)) =>
       (ifret.kind = "return" /\ ifret.value = WholePart(str))

\* int("3.4") raised and int(float("3.4")) returned 3
C17_Witness ==
  /\ str = <<"3", ".", "4">>
  /\ iret.kind = "raise"
  /\ ifret.kind = "return"
  /\ ifret.value = 3


(***************************************************************************)
(* Properties of the slicing lesson.                                       *)
(***************************************************************************)
\* t holds the characters s[lo], ..., s[hi - 1], each position read as
\* indexing reads it: from 0, a negative one from the end
Selects(t, s, lo, hi) ==
  /\ Len(t) = hi - lo
  /\ \A i \in 1..Len(t) :
       LET k == lo + i - 1
       IN  /\ 0 - Len(s) <= k
           /\ k < Len(s)
           /\ t[i] = s[IF k < 0 THEN k + Len(s) + 1 ELSE k + 1]

\* C18 as stated: for every start and stop the slice holds the positions
\* in [start, stop) and its length is stop - start.
C18_LengthIsStopMinusStart ==
  sub.kind = "return" => Selects(sub.value, cell_name, start, stop)

\* C18 as the slices behave: for 0 <= start <= stop <= len(s) the slice
\* holds the positions in [start, stop) and its length is stop - start; a
\* stop past the end selects up to the end of the string, a negative stop
\* counts from the end (and from the beginning when it reaches before it),
\* the same for start, and a stop that then lies before the start selects
\* nothing.
C18_SliceSelectsAdjustedRange ==
  sub.kind = "return" =>
    LET n == Len(cell_name)
        lo == IF start < 0 THEN (IF start + n > 0 THEN start + n ELSE 0)
              ELSE (IF start < n THEN start ELSE n)
        hi == IF stop < 0 THEN (IF stop + n > 0 THEN stop + n ELSE 0)
              ELSE (IF stop < n THEN stop ELSE n)
    IN  /\ (0 <= start /\ start <= stop /\ stop <= n) =>
             Selects(sub.value, cell_name, start, stop)
        /\ hi >= lo => Selects(sub.value, cell_name, lo, hi)
        /\ hi < lo => sub.value = <<>>

\* a slice from 1 with the stop past the end of a string of three
\* characters returned its last two characters
C18_Witness ==
  /\ sub.kind = "return"
  /\ Len(cell_name) = 3
  /\ start = 1
  /\ stop > Len(cell_name)
  /\ sub.value = <<cell_name[2], cell_name[3]>>

(***************************************************************************)
(* Properties of plot_model_selection.                                     *)
(***************************************************************************)
\* position i of accs holds the largest accuracy and no position before it
FirstLargest(accs, i) ==
  /\ \A j \in 1..Len(accs) : accs[j] <= accs[i]
  /\ \A j \in 1..(i - 1) : accs[j] < accs[i]

\* C20: the title names the C value at the position of the largest accuracy,
\* the first such position when several hold it, and the accuracy in the
\* title is the largest accuracy, each as the title's format writes it.
C20_BestCIsFirstArgmax ==
  title.kind = "return" =>
    \E i \in 1..Len(accuracies) :
      /\ FirstLargest(accuracies, i)
      /\ title.value.best_C = format_g(C_values[i])
      /\ title.value.accuracy = format_percent(accuracies[i])

\* two C values share the largest accuracy and the title names the first
C20_Witness ==
  /\ title.kind = "return"
  /\ Len(accuracies) = 3
  /\ accuracies[1] < accuracies[2]
  /\ accuracies[3] = accuracies[2]
  /\ C_values[2] /= C_values[3]
  /\ title.value.best_C = format_g(C_values[2])

====
